---- MODULE Spec2Model ----
\* State-machine model of libsurfer's CXXRTL container
\* (src/libsurfer/src/cxxrtl_container.rs): the tri-state cache cells, the
\* container facade, the command channel, and the background worker that
\* dispatches simulator responses to the queued callbacks.
EXTENDS Integers, Sequences, FiniteSets, TLC

\* ---------------------------------------------------------------- bounds

\* Number of run_command invocations explored in one behaviour: of the whole
\* facade (MaxCmds), of hierarchy browsing and simulation control
\* (MaxBrowseCmds), of simulation control alone (MaxCtlCmds), and of the
\* point-query path alone (MaxQueryCmds, and MaxDeepCmds for longer runs).
MaxCmds == 3
MaxBrowseCmds == 3
MaxCtlCmds == 4
MaxQueryCmds == 4
MaxDeepCmds == 5
\* Simulator-reported timestamps range over 0..MaxTime (femtoseconds).
MaxTime == 1
\* Capacity of the command channel; the program uses 100 (mpsc::channel(100)),
\* the model explores the same blocking behaviour with a small capacity.
ChanCap == 2
\* Longest iterator handed to load_variables.
MaxLoad == 2

\* ------------------------------------------------------ program constants

\* The run quantum added by unpause, in femtoseconds.
Quantum == 100000000

DEFAULT_REFERENCE == "ALL_VARIABLES"

\* Option<T>: None, or Some(v) holding v
None == <<>>
Some(v) == << v >>

\* ------------------------------------------------------------ value sets

\* Strings are sequences of one-character strings; " " is the wire separator.
SP == " "

\* The variables the caller loads and queries (VariableRef: scope path + name).
VarR == [path |-> << <<"t">> >>, name |-> <<"r">>]
VarQ == [path |-> << <<"t">> >>, name |-> <<"q">>]
Vars == {VarR, VarQ}

\* The scopes the caller asks items for (ScopeRef: sequence of segments).
ScopeArgs == { << <<"t">> >> }

\* Payloads of list_scopes responses: wire scope name -> CxxrtlScope {} (a set).
ScopeLists == { { <<>>, <<"t">> }, { <<"t">>, <<"t", SP, "c">> } }

\* Payloads of list_items responses: wire item key -> CxxrtlItem.
ItemLists ==
    { (<<"t", SP, "r">> :> [width |-> 16]),
      (<<"t", SP, "r">> :> [width |-> 16]) @@ (<<"t", SP, "q">> :> [width |-> 32]) }

\* Payloads of query_interval responses (decoded by the interval store).
SampleLists == { <<>>, << [time |-> 0, values |-> <<1>>] >> }

Timestamps == 0..MaxTime

SimulationStatusType == {"running", "paused", "finished"}

\* CxxrtlSimulationStatus
Statuses == [status : SimulationStatusType, latest_time : Timestamps]

\* CommandResponse
Responses ==
    [variant : {"list_scopes"}, scopes : ScopeLists]
    \cup [variant : {"list_items"}, items : ItemLists]
    \cup [variant : {"query_interval"}, samples : SampleLists]
    \cup [variant : {"get_simulation_status"}, status : Statuses]
    \cup [variant : {"pause_simulation"}, time : Timestamps]
    \cup [variant : {"run_simulation", "reference_items"}]

\* ---------------------------------------------------------- string helpers

\* Position of the first separator in s, or 0.
FirstSpace(s) ==
    IF \E i \in 1..Len(s) : s[i] = SP
    THEN CHOOSE i \in 1..Len(s) : s[i] = SP /\ \A j \in 1..(i - 1) : s[j] # SP
    ELSE 0

RECURSIVE Split(_)
\* str::split(' '): always at least one (possibly empty) token.
Split(s) ==
    LET i == FirstSpace(s) IN
    IF i = 0 THEN << s >>
    ELSE << SubSeq(s, 1, i - 1) >> \o Split(SubSeq(s, i + 1, Len(s)))

RECURSIVE Join(_)
\* Segments joined by single separators.
Join(segs) ==
    IF segs = <<>> THEN <<>>
    ELSE IF Len(segs) = 1 THEN segs[1]
    ELSE segs[1] \o << SP >> \o Join(Tail(segs))

\* ScopeRef::cxxrtl_repr / VariableRef::cxxrtl_repr: the wire name.
scope_cxxrtl_repr(scope) == Join(scope)
var_cxxrtl_repr(v) == Join(v.path \o << v.name >>)

\* ------------------------------------------------------------ CachedData

\* CachedData::empty
empty == [tag |-> "Uncached", val |-> None]

\* CachedData::filled
filled(t) == [tag |-> "Filled", val |-> Some(t)]

\* make_uncached losing the value of a Filled cell.
make_uncached_forgetting(c) ==
    CASE c.tag = "Uncached" -> [tag |-> "Uncached", val |-> c.val]
      [] c.tag = "Waiting"  -> [tag |-> "Uncached", val |-> c.val]
      [] c.tag = "Filled"   -> [tag |-> "Uncached", val |-> None]

\* CachedData::make_uncached
make_uncached(c) ==
    CASE c.tag = "Uncached" -> [tag |-> "Uncached", val |-> c.val]
      [] c.tag = "Waiting"  -> [tag |-> "Uncached", val |-> c.val]
      [] c.tag = "Filled"   -> [tag |-> "Uncached", val |-> c.val]

\* CachedData::get (an Option)
get(c) ==
    CASE c.tag = "Uncached" -> c.val
      [] c.tag = "Waiting"  -> c.val
      [] c.tag = "Filled"   -> c.val

\* fetch_if_needed running f again while the cell is Waiting.
fetch_if_needed_reissuing(c) ==
    CASE c.tag = "Uncached" ->
            [issue |-> TRUE, cell |-> [tag |-> "Waiting", val |-> c.val], result |-> c.val]
      [] c.tag = "Waiting"  ->
            [issue |-> TRUE, cell |-> [tag |-> "Waiting", val |-> c.val], result |-> c.val]
      [] c.tag = "Filled"   -> [issue |-> FALSE, cell |-> c, result |-> c.val]

\* fetch_if_needed running f on a Filled cell as on an Uncached one.
fetch_if_needed_refetching(c) ==
    CASE c.tag = "Uncached" ->
            [issue |-> TRUE, cell |-> [tag |-> "Waiting", val |-> c.val], result |-> c.val]
      [] c.tag = "Waiting"  -> [issue |-> FALSE, cell |-> c, result |-> c.val]
      [] c.tag = "Filled"   ->
            [issue |-> TRUE, cell |-> [tag |-> "Waiting", val |-> c.val], result |-> c.val]

\* fetch_if_needed dropping the previous value when it starts a request.
fetch_if_needed_dropping(c) ==
    CASE c.tag = "Uncached" ->
            [issue |-> TRUE, cell |-> [tag |-> "Waiting", val |-> None], result |-> c.val]
      [] c.tag = "Waiting"  -> [issue |-> FALSE, cell |-> c, result |-> c.val]
      [] c.tag = "Filled"   -> [issue |-> FALSE, cell |-> c, result |-> c.val]

\* CachedData::fetch_if_needed: whether f is invoked, the cell afterwards, and
\* the value returned.
fetch_if_needed(c) ==
    CASE c.tag = "Uncached" ->
            [issue |-> TRUE, cell |-> [tag |-> "Waiting", val |-> c.val], result |-> c.val]
      [] c.tag = "Waiting"  -> [issue |-> FALSE, cell |-> c, result |-> c.val]
      [] c.tag = "Filled"   -> [issue |-> FALSE, cell |-> c, result |-> c.val]

\* ------------------------------------------------------------- decoding

\* The scope-list decoding in the get_scopes callback: name.split(' ').
decode_scopes(scopes) == { Split(name) : name \in scopes }

\* The decoding with the name left in the scope path.
item_key_to_ref_whole_path(k) ==
    LET sp == Split(k) IN
    [path |-> SubSeq(sp, 1, Len(sp)), name |-> sp[Len(sp)]]

\* The VariableRef a wire item key decodes to in item_list_to_hash_map.
item_key_to_ref(k) ==
    LET sp == Split(k) IN
    [path |-> SubSeq(sp, 1, Len(sp) - 1), name |-> sp[Len(sp)]]

\* CxxrtlContainer::item_list_to_hash_map
item_list_to_hash_map(items) ==
    LET kept == { k \in DOMAIN items : Split(k) # <<>> }
        refs == { item_key_to_ref(k) : k \in kept }
    IN  [v \in refs |-> items[CHOOSE k \in kept : item_key_to_ref(k) = v]]

\* The scope list the facade works on: get_scopes' value, the empty map when
\* the cell serves none.
scopes_served(c) == IF get(c) = None THEN {} ELSE get(c)[1]

\* CxxrtlContainer::root_modules: scopes() is always Some, so the list holds the
\* one ScopeRef with no segments.
root_modules == { <<>> }

\* CxxrtlContainer::module_exists over the scope list served.
module_exists(scopes, module) == module \in scopes

\* The filter taking every deeper scope under the parent.
child_scopes_descendants(scopes, parent) ==
    { scope \in scopes :
         /\ Len(scope) > Len(parent)
         /\ SubSeq(scope, 1, Len(parent)) = SubSeq(parent, 1, Len(parent)) }

\* CxxrtlContainer::child_scopes: the filter over the scope list (the Vec it
\* collects, as a set).
child_scopes(scopes, parent) ==
    { scope \in scopes :
         /\ Len(scope) = Len(parent) + 1
         /\ SubSeq(scope, 1, Len(parent)) = SubSeq(parent, 1, Len(parent)) }

\* ----------------------------------------------------------------- state

VARIABLES
    \* CxxrtlData
    scopes_cache,           \* CachedData<set of ScopeRef>
    module_item_cache,      \* ScopeRef -> CachedData<VariableRef -> CxxrtlItem>
    all_items_cache,        \* CachedData<VariableRef -> CxxrtlItem>
    query_result,           \* CachedData<CxxrtlTimestamp>
    interval_query_cache,   \* what the interval store was last populated with
    loaded_signals,         \* Vec<VariableRef>
    signal_index_map,       \* VariableRef -> usize (0-based)
    simulation_status,      \* CachedData<CxxrtlSimulationStatus>
    msg_sent,               \* messages the latest callback put on msg_channel
    \* CxxrtlContainer
    command_channel,        \* (CxxrtlCommand, Callback) pairs in the channel
    nsub,                   \* number of completed run_command sends
    limit,                  \* number of sends the explored caller makes at most
    \* the calling thread
    fpc,                    \* where the caller is inside a facade call
    local,                  \* the caller's local variables at fpc
    \* CxxrtlWorker
    callback_queue,         \* commands written to the wire, callbacks pending
    wpc,                    \* "run", or "await_lock" with a frame read
    wframe,                 \* the response frame read while awaiting the lock
    \* the transport
    greeting,               \* how much of the greeting frame has been written
    \* the latest facade call or callback (for stating the properties)
    last

cellVars == <<scopes_cache, module_item_cache, all_items_cache, query_result,
              simulation_status>>
tableVars == <<loaded_signals, signal_index_map>>
dataVars == <<cellVars, tableVars, interval_query_cache, msg_sent>>
chanVars == <<command_channel, nsub>>
envVars == <<limit, greeting>>
facadeVars == <<fpc, local>>
workerVars == <<callback_queue, wpc, wframe>>
vars == <<dataVars, chanVars, facadeVars, workerVars, last, envVars>>

NoLocal == [none |-> TRUE]

\* QueryContainer::empty
EmptyStore == [loaded_signals |-> <<>>, info |-> <<>>, samples |-> <<>>]

\* CxxrtlContainer::new: the CxxrtlData constructed and the channel created.
Created ==
    /\ scopes_cache = empty
    /\ module_item_cache = <<>>
    /\ all_items_cache = empty
    /\ query_result = empty
    /\ interval_query_cache = EmptyStore
    /\ loaded_signals = <<>>
    /\ signal_index_map = <<>>
    /\ simulation_status = empty
    /\ msg_sent = 0
    /\ command_channel = <<>>
    /\ nsub = 0
    /\ fpc = "idle"
    /\ local = NoLocal
    /\ callback_queue = <<>>
    /\ wpc = "run"
    /\ wframe = None
    /\ greeting = "flushed"
    /\ last = [op |-> "new"]

Init == Created /\ limit = MaxCmds

\* ------------------------------------------------------- command channel

\* The channel has capacity for one more pair.
Room == Len(command_channel) < ChanCap

\* The caller is blocked inside a send while holding the data lock.
LockHeld == fpc = "blocked" /\ local.lock

\* run_command sending the pair twice.
run_command_twice(command, f) ==
    command_channel \o << [cmd |-> command, cb |-> f, id |-> nsub + 1],
                          [cmd |-> command, cb |-> f, id |-> nsub + 1] >>

\* CxxrtlContainer::run_command: the channel after the (command, callback) pair
\* has been sent.
run_command(command, f) ==
    Append(command_channel, [cmd |-> command, cb |-> f, id |-> nsub + 1])

\* Cell designators for the assignment that ends fetch_if_needed.
Cell(name) == [name |-> name, scope |-> None]
ModuleCell(scope) == [name |-> "module_item_cache", scope |-> Some(scope)]
NoCell == Cell("none")

\* `*self = CachedData::Waiting { prev }`, the assignment fetch_if_needed makes
\* once the issue closure has returned, applied to the designated cell.
MarkWaiting(cell) ==
    /\ scopes_cache' =
          IF cell.name = "scopes_cache"
          THEN fetch_if_needed(scopes_cache).cell ELSE scopes_cache
    /\ all_items_cache' =
          IF cell.name = "all_items_cache"
          THEN fetch_if_needed(all_items_cache).cell ELSE all_items_cache
    /\ query_result' =
          IF cell.name = "query_result"
          THEN fetch_if_needed(query_result).cell ELSE query_result
    /\ simulation_status' =
          IF cell.name = "simulation_status"
          THEN fetch_if_needed(simulation_status).cell ELSE simulation_status
    /\ module_item_cache' =
          IF cell.name = "module_item_cache"
          THEN LET scope == cell.scope[1]
                   cur == IF scope \in DOMAIN module_item_cache
                          THEN module_item_cache[scope] ELSE empty
               IN  (scope :> fetch_if_needed(cur).cell) @@ module_item_cache
          ELSE module_item_cache

\* The channel is closed: the worker, which owns the receiver, has terminated.
Closed == wpc = "dead"

\* `entry(scope).or_insert(CachedData::empty())`, which precedes the closure of
\* fetch_items_in_module.
EntryInserted(cell) ==
    module_item_cache' =
        IF cell.name = "module_item_cache"
           /\ cell.scope[1] \notin DOMAIN module_item_cache
        THEN (cell.scope[1] :> empty) @@ module_item_cache
        ELSE module_item_cache

\* The submit step with the send's error ignored: the call goes on as if the
\* pair had been sent.
Submit_ignoring_error(command, f, locked, cell, nextpc, nextlocal) ==
    /\ nsub < limit
    /\ UNCHANGED envVars
    /\ IF Closed \/ Room
       THEN /\ IF Closed THEN UNCHANGED chanVars
               ELSE command_channel' = run_command(command, f) /\ nsub' = nsub + 1
            /\ MarkWaiting(cell)
            /\ fpc' = nextpc
            /\ local' = nextlocal
       ELSE /\ fpc' = "blocked"
            /\ local' = [cmd |-> command, cb |-> f, lock |-> locked, cell |-> cell,
                         nextpc |-> nextpc, nextlocal |-> nextlocal]
            /\ UNCHANGED <<chanVars, scopes_cache, all_items_cache, query_result,
                           simulation_status>>
            /\ EntryInserted(cell)

\* A facade step that runs run_command(command, f) from inside the issue closure
\* of `cell` (NoCell: a bare run_command) and then goes on at (nextpc, nextlocal).
\* With the channel closed the send fails and `expect` panics before the cell is
\* assigned. With the channel full the caller blocks in the send, holding the
\* data lock iff `locked`, and SendUnblock finishes the step.
Submit(command, f, locked, cell, nextpc, nextlocal) ==
    /\ nsub < limit
    /\ UNCHANGED envVars
    /\ IF Closed
       THEN /\ fpc' = "panicked"
            /\ local' = NoLocal
            /\ UNCHANGED <<chanVars, scopes_cache, all_items_cache, query_result,
                           simulation_status>>
            /\ EntryInserted(cell)
       ELSE IF Room
       THEN /\ command_channel' = run_command(command, f)
            /\ nsub' = nsub + 1
            /\ MarkWaiting(cell)
            /\ fpc' = nextpc
            /\ local' = nextlocal
       ELSE /\ fpc' = "blocked"
            /\ local' = [cmd |-> command, cb |-> f, lock |-> locked, cell |-> cell,
                         nextpc |-> nextpc, nextlocal |-> nextlocal]
            /\ UNCHANGED <<chanVars, scopes_cache, all_items_cache, query_result,
                           simulation_status>>
            /\ EntryInserted(cell)

\* The blocked send completes once the worker has made room in the channel.
SendUnblock ==
    /\ fpc = "blocked"
    /\ ~Closed
    /\ Room
    /\ command_channel' = run_command(local.cmd, local.cb)
    /\ nsub' = nsub + 1
    /\ MarkWaiting(local.cell)
    /\ fpc' = local.nextpc
    /\ local' = local.nextlocal
    /\ UNCHANGED <<tableVars, interval_query_cache, msg_sent, workerVars, last,
                   envVars>>

\* -------------------------------------------------------------- commands

cmd_list_scopes == [name |-> "list_scopes", scope |-> None]
cmd_list_items(scope) == [name |-> "list_items", scope |-> scope]
cmd_reference_items(items) ==
    [name |-> "reference_items", reference |-> DEFAULT_REFERENCE, items |-> items]
cmd_query_interval(from, to) ==
    [name |-> "query_interval", interval |-> <<from, to>>, items |-> DEFAULT_REFERENCE]
cmd_run_simulation(until_time) == [name |-> "run_simulation", until_time |-> until_time]
cmd_pause_simulation == [name |-> "pause_simulation"]
cmd_get_simulation_status == [name |-> "get_simulation_status"]

\* ------------------------------------------------------------- callbacks
\* A callback is the closure handed to run_command: its kind and what it captured.

cb_get_scopes == [kind |-> "get_scopes"]
cb_fetch_item == [kind |-> "fetch_item"]
cb_fetch_items_in_module(scope) == [kind |-> "fetch_items_in_module", scope |-> scope]
cb_query_variable(max_timestamp, signals, info) ==
    [kind |-> "query_variable", max_timestamp |-> max_timestamp,
     loaded_signals |-> signals, info |-> info]
cb_load_variables == [kind |-> "load_variables"]
cb_raw_simulation_status == [kind |-> "raw_simulation_status"]
cb_unpause == [kind |-> "unpause"]
cb_pause == [kind |-> "pause"]

\* expect_response!: the response has the expected variant (else the callback
\* logs and returns).
expect_response(expected, response) == response.variant = expected

\* The callback found the wrong variant and made the list and status cells
\* Absent again, so that the next call asks once more.
Returned_retrying ==
    /\ scopes_cache' = make_uncached(scopes_cache)
    /\ all_items_cache' = make_uncached(all_items_cache)
    /\ simulation_status' = make_uncached(simulation_status)
    /\ msg_sent' = 0
    /\ UNCHANGED <<module_item_cache, query_result, tableVars, interval_query_cache>>

\* The callback found the wrong variant and returned: nothing is touched.
Returned == UNCHANGED <<cellVars, tableVars, interval_query_cache>> /\ msg_sent' = 0

\* CxxrtlData::invalidate_query_result, sending `sent` messages in all.
invalidate_query_result(sent) ==
    /\ query_result' = make_uncached(query_result)
    /\ msg_sent' = sent + 1

\* on_simulation_status_update leaving the query window as it is.
on_simulation_status_update_keeping_query(status) ==
    /\ simulation_status' = filled(status)
    /\ msg_sent' = 1
    /\ UNCHANGED <<scopes_cache, module_item_cache, all_items_cache, query_result,
                   tableVars, interval_query_cache>>

\* CxxrtlData::on_simulation_status_update
on_simulation_status_update(status) ==
    /\ simulation_status' = filled(status)
    /\ invalidate_query_result(1)
    /\ UNCHANGED <<scopes_cache, module_item_cache, all_items_cache, tableVars,
                   interval_query_cache>>

\* The callback of get_scopes.
on_get_scopes(response) ==
    IF expect_response("list_scopes", response)
    THEN /\ scopes_cache' = filled(decode_scopes(response.scopes))
         /\ msg_sent' = 0
         /\ UNCHANGED <<module_item_cache, all_items_cache, query_result,
                        simulation_status, tableVars, interval_query_cache>>
    ELSE Returned

\* The callback of fetch_item and of fetch_all_items.
on_fetch_item(response) ==
    IF expect_response("list_items", response)
    THEN /\ all_items_cache' = filled(item_list_to_hash_map(response.items))
         /\ msg_sent' = 0
         /\ UNCHANGED <<scopes_cache, module_item_cache, query_result,
                        simulation_status, tableVars, interval_query_cache>>
    ELSE Returned

\* The callback of fetch_items_in_module.
on_fetch_items_in_module(cb, response) ==
    IF expect_response("list_items", response)
    THEN /\ module_item_cache' =
              (cb.scope :> filled(item_list_to_hash_map(response.items)))
              @@ module_item_cache
         /\ msg_sent' = 0
         /\ UNCHANGED <<scopes_cache, all_items_cache, query_result,
                        simulation_status, tableVars, interval_query_cache>>
    ELSE Returned

\* QueryContainer::populate: what the store is populated with (it notifies the
\* application once).
populate(signals, info, samples) ==
    [loaded_signals |-> signals, info |-> info, samples |-> samples]

\* The position (0-based) of a variable in the load set the store was populated
\* with.
store_index(store, variable) ==
    (CHOOSE i \in 1..Len(store.loaded_signals) : store.loaded_signals[i] = variable) - 1

\* The ordered (time, value) sequence the store holds for a variable of its load
\* set: one entry per sampled point that carries a value for it.
signal_samples(store, variable) ==
    LET idx == store_index(store, variable)
        F[i \in 0..Len(store.samples)] ==
            IF i = 0 THEN <<>>
            ELSE IF idx < Len(store.samples[i].values)
                 THEN Append(F[i - 1], [time |-> store.samples[i].time,
                                        value |-> store.samples[i].values[idx + 1]])
                 ELSE F[i - 1]
    IN  F[Len(store.samples)]

RECURSIVE partition_point_strict(_, _, _, _)
\* The search counting the samples strictly before `time`.
partition_point_strict(s, time, lo, hi) ==
    IF lo >= hi THEN lo
    ELSE LET mid == (lo + hi) \div 2 IN
         IF s[mid + 1].time < time
         THEN partition_point_strict(s, time, mid + 1, hi)
         ELSE partition_point_strict(s, time, lo, mid)

RECURSIVE partition_point(_, _, _, _)
\* Binary search over a per-signal sample sequence: the number of samples among
\* s[1..hi] with timestamp <= time, given that the first lo are.
partition_point(s, time, lo, hi) ==
    IF lo >= hi THEN lo
    ELSE LET mid == (lo + hi) \div 2 IN
         IF s[mid + 1].time <= time
         THEN partition_point(s, time, mid + 1, hi)
         ELSE partition_point(s, time, lo, mid)

\* QueryContainer::query: the value of the most recent sample at or before
\* `time`, or the default (no value).
query(store, variable, time) ==
    IF \A i \in 1..Len(store.loaded_signals) : store.loaded_signals[i] # variable
    THEN None
    ELSE LET s == signal_samples(store, variable)
             n == partition_point(s, time, 0, Len(s))
         IN  IF n = 0 THEN None ELSE Some(s[n].value)

\* The callback of query_variable.
on_query_variable(cb, response) ==
    IF expect_response("query_interval", response)
    THEN /\ query_result' = filled(cb.max_timestamp)
         /\ interval_query_cache' =
               populate(cb.loaded_signals, cb.info, response.samples)
         /\ msg_sent' = 1
         /\ UNCHANGED <<scopes_cache, module_item_cache, all_items_cache,
                        simulation_status, tableVars>>
    ELSE Returned

\* The callback of load_variables leaving the query window as it is.
on_load_variables_keeping_window(response) ==
    /\ msg_sent' = 0
    /\ UNCHANGED <<cellVars, tableVars, interval_query_cache>>

\* The callback of load_variables (it does not look at the response).
on_load_variables(response) ==
    /\ invalidate_query_result(0)
    /\ UNCHANGED <<scopes_cache, module_item_cache, all_items_cache,
                   simulation_status, tableVars, interval_query_cache>>

\* The callback of raw_simulation_status.
on_raw_simulation_status(response) ==
    IF expect_response("get_simulation_status", response)
    THEN on_simulation_status_update(response.status)
    ELSE Returned

\* The callback of unpause (it does not look at the response).
on_unpause(response) ==
    /\ simulation_status' = filled([status |-> "running", latest_time |-> 0])
    /\ msg_sent' = 0
    /\ UNCHANGED <<scopes_cache, module_item_cache, all_items_cache, query_result,
                   tableVars, interval_query_cache>>

\* The callback of pause.
on_pause(response) ==
    IF expect_response("pause_simulation", response)
    THEN on_simulation_status_update([status |-> "paused", latest_time |-> response.time])
    ELSE Returned

\* Calling the boxed callback with the response and &mut CxxrtlData.
Invoke(cb, response) ==
    CASE cb.kind = "get_scopes" -> on_get_scopes(response)
      [] cb.kind = "fetch_item" -> on_fetch_item(response)
      [] cb.kind = "fetch_items_in_module" -> on_fetch_items_in_module(cb, response)
      [] cb.kind = "query_variable" -> on_query_variable(cb, response)
      [] cb.kind = "load_variables" -> on_load_variables(response)
      [] cb.kind = "raw_simulation_status" -> on_raw_simulation_status(response)
      [] cb.kind = "unpause" -> on_unpause(response)
      [] cb.kind = "pause" -> on_pause(response)

\* ----------------------------------------------------------- the facade

\* A facade step that calls c.fetch_if_needed(|| run_command(command, f)) on the
\* cell designated by `cell`, under the data write lock.
Fetch(op, c, cell, command, f, nextpc, nextlocal, ret) ==
    LET r == fetch_if_needed(c) IN
    /\ last' = [op |-> op, cell |-> cell, issued |-> r.issue, ret |-> ret]
    /\ IF r.issue
       THEN Submit(command, f, TRUE, cell, nextpc, nextlocal)
       ELSE /\ fpc' = nextpc
            /\ local' = nextlocal
            /\ UNCHANGED <<chanVars, cellVars, envVars>>
    /\ UNCHANGED <<tableVars, interval_query_cache, msg_sent, workerVars>>

\* CxxrtlContainer::get_scopes (modules, root_modules, module_exists, child_scopes)
GetScopes ==
    /\ fpc = "idle"
    /\ Fetch("get_scopes", scopes_cache, Cell("scopes_cache"),
             cmd_list_scopes, cb_get_scopes, "idle", NoLocal, "-")

\* CxxrtlContainer::fetch_item (variable_meta)
FetchItem ==
    /\ fpc = "idle"
    /\ Fetch("fetch_item", all_items_cache, Cell("all_items_cache"),
             cmd_list_items(None), cb_fetch_item, "idle", NoLocal, "-")

\* The width variable_meta reports: that of the variable's item in the table
\* fetch_item was served, unknown without a table or without the item.
num_bits(table, variable) ==
    IF table # None /\ variable \in DOMAIN table[1]
    THEN Some(table[1][variable].width) ELSE None

\* variable_meta asking the simulator again on every call.
VariableMeta_per_call(variable) ==
    /\ fpc = "idle"
    /\ last' = [op |-> "variable_meta", cell |-> Cell("all_items_cache"),
                issued |-> TRUE,
                ret |-> [var |-> variable,
                         num_bits |-> num_bits(get(all_items_cache), variable)]]
    /\ nsub < limit
    /\ Room
    /\ command_channel' = run_command(cmd_list_items(None), cb_fetch_item)
    /\ nsub' = nsub + 1
    /\ UNCHANGED <<dataVars, facadeVars, workerVars, envVars>>

\* CxxrtlContainer::variable_meta: fetch_item(variable) mapped to VariableMeta.
VariableMeta(variable) ==
    /\ fpc = "idle"
    /\ Fetch("variable_meta", all_items_cache, Cell("all_items_cache"),
             cmd_list_items(None), cb_fetch_item, "idle", NoLocal,
             [var |-> variable,
              num_bits |-> num_bits(fetch_if_needed(all_items_cache).result, variable)])

\* CxxrtlContainer::fetch_items_in_module (variables_in_module,
\* no_variables_in_module)
FetchItemsInModule(scope) ==
    /\ fpc = "idle"
    /\ Fetch("fetch_items_in_module",
             IF scope \in DOMAIN module_item_cache
             THEN module_item_cache[scope] ELSE empty,
             ModuleCell(scope),
             cmd_list_items(Some(scope_cxxrtl_repr(scope))),
             cb_fetch_items_in_module(scope), "idle", NoLocal, "-")

\* CxxrtlContainer::raw_simulation_status (simulation_status, max_timestamp)
RawSimulationStatus ==
    /\ fpc = "idle"
    /\ Fetch("raw_simulation_status", simulation_status, Cell("simulation_status"),
             cmd_get_simulation_status, cb_raw_simulation_status,
             "idle", NoLocal, "-")

\* query_variable, `let max_timestamp = self.max_timestamp()?;`
QueryVariable_max_timestamp ==
    /\ fpc = "idle"
    /\ LET s == fetch_if_needed(simulation_status).result IN
       IF s = None
       THEN Fetch("query_variable", simulation_status, Cell("simulation_status"),
                  cmd_get_simulation_status, cb_raw_simulation_status,
                  "idle", NoLocal, "None")
       ELSE Fetch("query_variable", simulation_status, Cell("simulation_status"),
                  cmd_get_simulation_status, cb_raw_simulation_status,
                  "qv_items", [max_timestamp |-> s[1].latest_time], "pending")

\* query_variable, `let info = self.fetch_all_items()?;`
QueryVariable_fetch_all_items ==
    /\ fpc = "qv_items"
    /\ LET info == fetch_if_needed(all_items_cache).result IN
       IF info = None
       THEN Fetch("query_variable", all_items_cache, Cell("all_items_cache"),
                  cmd_list_items(None), cb_fetch_item, "idle", NoLocal, "None")
       ELSE Fetch("query_variable", all_items_cache, Cell("all_items_cache"),
                  cmd_list_items(None), cb_fetch_item, "qv_loaded",
                  [max_timestamp |-> local.max_timestamp, info |-> info[1]], "pending")

\* query_variable, `let loaded_signals = ...loaded_signals.clone();`
QueryVariable_loaded_signals ==
    /\ fpc = "qv_loaded"
    /\ fpc' = "qv_query"
    /\ local' = [max_timestamp |-> local.max_timestamp, info |-> local.info,
                 loaded_signals |-> loaded_signals]
    /\ last' = [op |-> "query_variable", cell |-> NoCell, issued |-> FALSE,
                ret |-> "pending"]
    /\ UNCHANGED <<dataVars, chanVars, workerVars, envVars>>

\* query_variable, the fetch_if_needed on query_result and the store lookup:
\* Some(interval_query_cache.query(..)) when the fetch returned a value, and
\* Some(QueryResult::default()) otherwise.
QueryVariable_query ==
    /\ fpc = "qv_query"
    /\ Fetch("query_variable", query_result, Cell("query_result"),
             cmd_query_interval(0, local.max_timestamp),
             cb_query_variable(local.max_timestamp, local.loaded_signals, local.info),
             "idle", NoLocal,
             IF fetch_if_needed(query_result).result # None
             THEN "Some(query)" ELSE "Some(default)")

RECURSIVE load_loop_pushing(_, _)
\* The loop of load_variables without the contains_key test.
load_loop_pushing(tbl, vs) ==
    IF vs = <<>> THEN tbl
    ELSE LET varref == Head(vs)
             idx == Len(tbl.signals)
         IN  load_loop_pushing([signals |-> Append(tbl.signals, varref),
                                index |-> (varref :> idx) @@ tbl.index],
                               Tail(vs))

RECURSIVE load_loop(_, _)
\* The loop of load_variables over the iterator vs, on the table
\* tbl = [signals, index].
load_loop(tbl, vs) ==
    IF vs = <<>> THEN tbl
    ELSE LET varref == Head(vs)
             idx == Len(tbl.signals)
         IN  load_loop(IF varref \notin DOMAIN tbl.index
                       THEN [signals |-> Append(tbl.signals, varref),
                             index |-> (varref :> idx) @@ tbl.index]
                       ELSE tbl,
                       Tail(vs))

\* The iterators the caller hands to load_variables.
LoadInputs == UNION { [1..n -> Vars] : n \in 0..MaxLoad }

\* CxxrtlContainer::load_variables
LoadVariables(variables) ==
    /\ fpc = "idle"
    /\ LET tbl == load_loop([signals |-> loaded_signals, index |-> signal_index_map],
                            variables)
       IN  /\ loaded_signals' = tbl.signals
           /\ signal_index_map' = tbl.index
           /\ Submit(cmd_reference_items(
                         [i \in 1..Len(tbl.signals) |-> << var_cxxrtl_repr(tbl.signals[i]) >>]),
                     cb_load_variables, TRUE, NoCell, "idle", NoLocal)
    /\ last' = [op |-> "load_variables", cell |-> NoCell, issued |-> TRUE,
                ret |-> "-", variables |-> variables]
    /\ UNCHANGED <<interval_query_cache, msg_sent, workerVars>>

\* The until_time computed from time zero whatever the status.
unpause_duration_from_zero(s) == Quantum

\* The until_time unpause computes from what raw_simulation_status returned.
unpause_duration(s) ==
    IF s # None THEN s[1].latest_time + Quantum ELSE Quantum

\* unpause, `let duration = self.raw_simulation_status().map(..).unwrap_or_else(..)`
Unpause_duration ==
    /\ fpc = "idle"
    /\ Fetch("unpause", simulation_status, Cell("simulation_status"),
             cmd_get_simulation_status, cb_raw_simulation_status,
             "unpause_run",
             [duration |-> unpause_duration(fetch_if_needed(simulation_status).result)],
             "pending")

\* unpause writing the running status itself, on the calling side, when it sends
\* the run command.
Unpause_run_command_eager ==
    /\ fpc = "unpause_run"
    /\ nsub < limit
    /\ ~Closed
    /\ Room
    /\ command_channel' = run_command(cmd_run_simulation(local.duration), cb_unpause)
    /\ nsub' = nsub + 1
    /\ simulation_status' = filled([status |-> "running", latest_time |-> 0])
    /\ fpc' = "idle"
    /\ local' = NoLocal
    /\ last' = [op |-> "unpause", cell |-> NoCell, issued |-> TRUE, ret |-> "-"]
    /\ UNCHANGED <<scopes_cache, module_item_cache, all_items_cache, query_result,
                   tableVars, interval_query_cache, msg_sent, workerVars, envVars>>

\* unpause, `self.run_command(cmd, ..)` (no lock is held)
Unpause_run_command ==
    /\ fpc = "unpause_run"
    /\ Submit(cmd_run_simulation(local.duration), cb_unpause, FALSE, NoCell,
              "idle", NoLocal)
    /\ last' = [op |-> "unpause", cell |-> NoCell, issued |-> TRUE, ret |-> "-"]
    /\ UNCHANGED <<tableVars, interval_query_cache, msg_sent, workerVars>>

\* CxxrtlContainer::pause (no lock is held)
Pause ==
    /\ fpc = "idle"
    /\ Submit(cmd_pause_simulation, cb_pause, FALSE, NoCell, "idle", NoLocal)
    /\ last' = [op |-> "pause", cell |-> NoCell, issued |-> TRUE, ret |-> "-"]
    /\ UNCHANGED <<tableVars, interval_query_cache, msg_sent, workerVars>>

\* ------------------------------------------------------------ the worker

\* Outbound: the oldest pair leaves the channel, its command is written to the
\* wire and its callback joins the pending-callback FIFO.
WorkerOutbound ==
    /\ wpc = "run"
    /\ command_channel # <<>>
    /\ callback_queue' = Append(callback_queue, Head(command_channel))
    /\ command_channel' = Tail(command_channel)
    /\ UNCHANGED <<dataVars, nsub, facadeVars, wpc, wframe, last, envVars>>

\* A variant no callback of `name` expects.
Foreign(name) == IF name = "reference_items" THEN "run_simulation" ELSE "reference_items"

\* The frames the simulator may answer a command with: the response of the
\* command's own variant, or a response of another variant.
SimResponses(cmd) ==
    { r \in Responses : r.variant \in {cmd.name, Foreign(cmd.name)} }

\* The oldest pending callback is popped and invoked with the response and
\* exclusive access to the shared state.
Deliver(response) ==
    /\ Invoke(Head(callback_queue).cb, response)
    /\ callback_queue' = Tail(callback_queue)
    /\ wpc' = "run"
    /\ wframe' = None
    /\ last' = [op |-> "callback", cb |-> Head(callback_queue).cb.kind,
                response |-> response]
    /\ UNCHANGED <<chanVars, facadeVars, envVars>>

\* Inbound: a response frame to the oldest written command is read and decoded;
\* its callback runs as soon as the data lock is free.
WorkerInbound ==
    /\ wpc = "run"
    /\ callback_queue # <<>>
    /\ \E response \in SimResponses(Head(callback_queue).cmd) :
          IF LockHeld
          THEN /\ wpc' = "await_lock"
               /\ wframe' = Some(response)
               /\ UNCHANGED <<dataVars, chanVars, facadeVars, callback_queue, last,
                              envVars>>
          ELSE Deliver(response)

\* The worker obtains the data lock it was waiting for.
WorkerLocked ==
    /\ wpc = "await_lock"
    /\ ~LockHeld
    /\ Deliver(wframe[1])

\* The worker task ends (its loop returns or panics): the receiver is dropped and
\* the channel is closed; the pairs it still held are never served.
WorkerTerminates ==
    /\ wpc \in {"run", "await_lock"}
    /\ wpc' = "dead"
    /\ wframe' = None
    /\ UNCHANGED <<dataVars, chanVars, facadeVars, callback_queue, last, envVars>>

\* The send a caller is blocked in fails once the channel is closed: `expect`
\* panics, the cell stays as it was.
SendFails ==
    /\ fpc = "blocked"
    /\ Closed
    /\ fpc' = "panicked"
    /\ local' = NoLocal
    /\ UNCHANGED <<dataVars, chanVars, workerVars, last, envVars>>

\* ------------------------------------------------------- the specification

Next ==
    \/ GetScopes
    \/ FetchItem
    \/ \E scope \in ScopeArgs : FetchItemsInModule(scope)
    \/ RawSimulationStatus
    \/ QueryVariable_max_timestamp
    \/ QueryVariable_fetch_all_items
    \/ QueryVariable_loaded_signals
    \/ QueryVariable_query
    \/ \E variables \in LoadInputs : LoadVariables(variables)
    \/ Unpause_duration
    \/ Unpause_run_command
    \/ Pause
    \/ SendUnblock
    \/ WorkerOutbound
    \/ WorkerInbound
    \/ WorkerLocked

Spec == Init /\ [][Next]_vars

\* The worker's steps and the completion of a blocked send.
Transport ==
    \/ SendUnblock
    \/ WorkerOutbound
    \/ WorkerInbound
    \/ WorkerLocked

\* A caller that browses the hierarchy, queries and controls the simulation, and
\* loads no variables.
NextBrowse ==
    \/ GetScopes
    \/ FetchItem
    \/ \E scope \in ScopeArgs : FetchItemsInModule(scope)
    \/ RawSimulationStatus
    \/ QueryVariable_max_timestamp
    \/ QueryVariable_fetch_all_items
    \/ QueryVariable_loaded_signals
    \/ QueryVariable_query
    \/ Unpause_duration
    \/ Unpause_run_command
    \/ Pause
    \/ Transport

InitBrowse == Created /\ limit = MaxBrowseCmds

SpecBrowse == InitBrowse /\ [][NextBrowse]_vars

\* A caller that only polls and controls the simulation.
NextCtl ==
    \/ RawSimulationStatus
    \/ Unpause_duration
    \/ Unpause_run_command
    \/ Pause
    \/ Transport

InitCtl == Created /\ limit = MaxCtlCmds

SpecCtl == InitCtl /\ [][NextCtl]_vars

\* A caller that loads variables, queries them and pauses the simulation.
NextQuery ==
    \/ QueryVariable_max_timestamp
    \/ QueryVariable_fetch_all_items
    \/ QueryVariable_loaded_signals
    \/ QueryVariable_query
    \/ \E variables \in LoadInputs : LoadVariables(variables)
    \/ Pause
    \/ Transport

InitQuery == Created /\ limit = MaxQueryCmds

SpecQuery == InitQuery /\ [][NextQuery]_vars

\* The same caller, followed over longer runs.
InitQueryDeep == Created /\ limit = MaxDeepCmds

SpecQueryDeep == InitQueryDeep /\ [][NextQuery]_vars

\* The control caller with a worker that is scheduled fairly and a simulator that
\* answers: a step of the worker that stays possible is eventually taken, and so
\* is the completion of a send for which the channel has room.
Fairness ==
    /\ WF_vars(WorkerOutbound)
    /\ WF_vars(WorkerInbound)
    /\ WF_vars(WorkerLocked)
    /\ WF_vars(SendUnblock)

SpecLive == InitCtl /\ [][NextCtl]_vars /\ Fairness

\* A caller of every cached lookup and control operation, with a worker that may
\* terminate.
NextDead ==
    \/ NextBrowse
    \/ WorkerTerminates
    \/ SendFails

SpecDead == InitBrowse /\ [][NextDead]_vars

\* A caller that browses the hierarchy, loads variables and controls the
\* simulation.
NextLoad ==
    \/ GetScopes
    \/ \E scope \in ScopeArgs : FetchItemsInModule(scope)
    \/ RawSimulationStatus
    \/ \E variables \in LoadInputs : LoadVariables(variables)
    \/ Unpause_duration
    \/ Unpause_run_command
    \/ Pause
    \/ Transport

InitLoad == Created /\ limit = MaxCmds

SpecLoad == InitLoad /\ [][NextLoad]_vars

\* A caller that asks for variable metadata and queries variables, and nothing
\* else: it sends three commands at most, so the channel never fills.
NextMeta ==
    \/ \E variable \in Vars : VariableMeta(variable)
    \/ QueryVariable_max_timestamp
    \/ QueryVariable_fetch_all_items
    \/ QueryVariable_loaded_signals
    \/ QueryVariable_query
    \/ WorkerOutbound
    \/ WorkerInbound

InitMeta == Created /\ limit = MaxCmds

SpecMeta == InitMeta /\ [][NextMeta]_vars

\* A caller that looks up the scope list, queries variables and pauses the
\* simulation, followed long enough for an invalidated query window to be
\* fetched again.
NextWindow ==
    \/ GetScopes
    \/ QueryVariable_max_timestamp
    \/ QueryVariable_fetch_all_items
    \/ QueryVariable_loaded_signals
    \/ QueryVariable_query
    \/ Pause
    \/ Transport

InitWindow == Created /\ limit = MaxDeepCmds

SpecWindow == InitWindow /\ [][NextWindow]_vars

\* ------------------------------------------------------------ construction

\* Before CxxrtlContainer::new has written anything: no worker, no container.
Unconnected ==
    /\ scopes_cache = empty
    /\ module_item_cache = <<>>
    /\ all_items_cache = empty
    /\ query_result = empty
    /\ interval_query_cache = EmptyStore
    /\ loaded_signals = <<>>
    /\ signal_index_map = <<>>
    /\ simulation_status = empty
    /\ msg_sent = 0
    /\ command_channel = <<>>
    /\ nsub = 0
    /\ fpc = "new_greeting"
    /\ local = NoLocal
    /\ callback_queue = <<>>
    /\ wpc = "unstarted"
    /\ wframe = None
    /\ greeting = "none"
    /\ last = [op |-> "new"]

\* One awaited write of new: it succeeds, or its error is returned by `?`.
NewWrite(pc, written, nextpc) ==
    /\ fpc = pc
    /\ \/ greeting' = written /\ fpc' = nextpc
       \/ greeting' = greeting /\ fpc' = "new_failed"
    /\ UNCHANGED <<dataVars, chanVars, local, workerVars, last, limit>>

\* new, `write.write_all(greeting.as_bytes()).await?`
New_write_greeting == NewWrite("new_greeting", "bytes", "new_sentinel")

\* new, `write.write_all(&[b'\0']).await?`
New_write_sentinel == NewWrite("new_sentinel", "framed", "new_flush")

\* new, `write.flush().await?`
New_flush == NewWrite("new_flush", "flushed", "new_spawn")

\* new spawning the worker with nothing written yet.
New_spawn_early ==
    /\ fpc = "new_greeting"
    /\ wpc' = "run"
    /\ fpc' = "idle"
    /\ UNCHANGED <<dataVars, chanVars, local, callback_queue, wframe, last, envVars>>

\* new, from the construction of CxxrtlData to `Ok(result)`: the channel is
\* created, the worker is spawned and the container is returned.
New_spawn ==
    /\ fpc = "new_spawn"
    /\ wpc' = "run"
    /\ fpc' = "idle"
    /\ UNCHANGED <<dataVars, chanVars, local, callback_queue, wframe, last, envVars>>

\* A caller that connects, then polls and controls the simulation.
NextNew ==
    \/ New_write_greeting
    \/ New_write_sentinel
    \/ New_flush
    \/ New_spawn
    \/ NextCtl

InitNew == Unconnected /\ limit = MaxCtlCmds

SpecNew == InitNew /\ [][NextNew]_vars

\* ------------------------------------------- the pure functions on their own

\* Sample values as the store decodes them.
SampleValues == {1, 2}

\* Strictly increasing timestamp sequences.
SortedTimes ==
    { ts \in UNION { [1..k -> Timestamps] : k \in 0..(MaxTime + 1) } :
         \A i, j \in 1..Len(ts) : i < j => ts[i] < ts[j] }

\* Sample batches, sorted by time, carrying one value per signal of a load set
\* of n signals.
StoreSamples(n) ==
    UNION { { [i \in 1..Len(ts) |-> [time |-> ts[i], values |-> vs[i]]] :
                 vs \in [1..Len(ts) -> [1..n -> SampleValues]] } : ts \in SortedTimes }

\* The load sets load_variables can build.
StoreTables == { load_loop([signals |-> <<>>, index |-> <<>>], vs).signals : vs \in LoadInputs }

\* The store is populated with a load set and a batch of samples.
Populate(signals, samples) ==
    /\ fpc = "idle"
    /\ interval_query_cache' = populate(signals, <<>>, samples)
    /\ last' = [op |-> "populate"]
    /\ UNCHANGED <<cellVars, tableVars, msg_sent, chanVars, facadeVars, workerVars,
                   envVars>>

\* The store is queried for a variable at a time.
StoreQuery(variable, time) ==
    /\ fpc = "idle"
    /\ last' = [op |-> "query", variable |-> variable, time |-> time,
                ret |-> query(interval_query_cache, variable, time)]
    /\ UNCHANGED <<dataVars, chanVars, facadeVars, workerVars, envVars>>

\* Wire scope names and item keys, and the parents asked about.
WireScopeNames == { <<>>, <<"t">>, <<"t", SP, "c">>, <<"t", SP, "c", SP, "d">>, <<"u">> }
ParentArgs == { <<>>, << <<"t">> >>, << <<"t">>, <<"c">> >>, << <<"u">> >> }
WireKeys ==
    { <<>>, <<"r">>, <<"t", SP, "c", SP, "r", "0">>, <<"t", SP, "q">> }
WireItems == [width : {16, 32}]
WireItemLists == UNION { [K -> WireItems] : K \in SUBSET WireKeys }

\* The get_scopes callback fills the scope cell from a list_scopes response.
FillScopes(names) ==
    /\ fpc = "idle"
    /\ on_get_scopes([variant |-> "list_scopes", scopes |-> names])
    /\ last' = [op |-> "callback", cb |-> "get_scopes",
                response |-> [variant |-> "list_scopes", scopes |-> names]]
    /\ UNCHANGED <<chanVars, facadeVars, workerVars, envVars>>

\* child_scopes(parent) on the scope list the cell serves.
ChildScopes(parent) ==
    /\ fpc = "idle"
    /\ last' = [op |-> "child_scopes", parent |-> parent,
                ret |-> child_scopes(scopes_served(scopes_cache), parent)]
    /\ UNCHANGED <<dataVars, chanVars, facadeVars, workerVars, envVars>>

\* item_list_to_hash_map(items)
ItemListToHashMap(items) ==
    /\ fpc = "idle"
    /\ last' = [op |-> "item_list_to_hash_map", items |-> items,
                ret |-> item_list_to_hash_map(items)]
    /\ UNCHANGED <<dataVars, chanVars, facadeVars, workerVars, envVars>>

\* No command is sent while the pure functions are exercised.
InitPure == Created /\ limit = 0

\* The decoding of responses and the local scope computation.
NextDecode ==
    \/ \E names \in SUBSET WireScopeNames : FillScopes(names)
    \/ \E parent \in ParentArgs : ChildScopes(parent)
    \/ \E items \in WireItemLists : ItemListToHashMap(items)

SpecDecode == InitPure /\ [][NextDecode]_vars

\* The interval store.
NextStore ==
    \/ \E signals \in StoreTables :
          \E samples \in StoreSamples(Len(signals)) : Populate(signals, samples)
    \/ \E variable \in Vars : \E time \in Timestamps : StoreQuery(variable, time)

SpecStore == InitPure /\ [][NextStore]_vars

\* ------------------------------------------------------------ properties

\* The step is a facade step (the caller runs; the worker does not move).
FacadeStep == fpc # "blocked" /\ UNCHANGED workerVars

\* The step is the worker invoking the oldest pending callback, Head(callback_queue),
\* with the response last'.response.
DeliverStep == Len(callback_queue') = Len(callback_queue) - 1

\* The response delivered in a DeliverStep has the variant its command asks for.
Matching == last'.response.variant = Head(callback_queue).cmd.name

\* The step appends exactly one pair to the channel, or leaves the caller
\* blocked in the send of one pair.
SendsOne ==
    \/ /\ Len(command_channel') = Len(command_channel) + 1
       /\ SubSeq(command_channel', 1, Len(command_channel)) = command_channel
       /\ nsub' = nsub + 1
       /\ fpc' # "blocked"
    \/ /\ fpc' = "blocked"
       /\ UNCHANGED chanVars

\* The command of the pair a SendsOne step sends.
SentCmd ==
    IF fpc' = "blocked" THEN local'.cmd
    ELSE command_channel'[Len(command_channel')].cmd

\* The step sends exactly one pair, and it carries `command`.
Sends(command) == SendsOne /\ SentCmd = command

\* The cell a designator names, now and after the step.
CellOf(d) ==
    CASE d.name = "scopes_cache" -> scopes_cache
      [] d.name = "all_items_cache" -> all_items_cache
      [] d.name = "query_result" -> query_result
      [] d.name = "simulation_status" -> simulation_status
      [] d.name = "module_item_cache" ->
            IF d.scope[1] \in DOMAIN module_item_cache
            THEN module_item_cache[d.scope[1]] ELSE empty
CellOfNext(d) ==
    CASE d.name = "scopes_cache" -> scopes_cache'
      [] d.name = "all_items_cache" -> all_items_cache'
      [] d.name = "query_result" -> query_result'
      [] d.name = "simulation_status" -> simulation_status'
      [] d.name = "module_item_cache" ->
            IF d.scope[1] \in DOMAIN module_item_cache'
            THEN module_item_cache'[d.scope[1]] ELSE empty

\* All cache cells of the shared state.
AllCells ==
    {Cell("scopes_cache"), Cell("all_items_cache"), Cell("query_result"),
     Cell("simulation_status")} \cup { ModuleCell(scope) : scope \in ScopeArgs }

\* The cell a callback was issued on behalf of (NoCell: none).
CellOfCallback(cb) ==
    CASE cb.kind = "get_scopes" -> Cell("scopes_cache")
      [] cb.kind = "fetch_item" -> Cell("all_items_cache")
      [] cb.kind = "fetch_items_in_module" -> ModuleCell(cb.scope)
      [] cb.kind = "query_variable" -> Cell("query_result")
      [] cb.kind = "raw_simulation_status" -> Cell("simulation_status")
      [] OTHER -> NoCell

\* The pairs submitted whose callback has not run: written to the wire, in the
\* channel, or held by a caller blocked in the send.
Pending ==
    callback_queue \o command_channel
    \o (IF fpc = "blocked" THEN << [cmd |-> local.cmd, cb |-> local.cb, id |-> nsub + 1] >>
        ELSE <<>>)

\* Number of requests outstanding on behalf of a cell.
Outstanding(d) ==
    Cardinality({ i \in 1..Len(Pending) : CellOfCallback(Pending[i].cb) = d })

\* C1: in every reachable state each cache cell has at most one request
\* outstanding (a command issued for the cell whose callback has not yet run).
C1_AtMostOneOutstanding == \A d \in AllCells : Outstanding(d) <= 1

\* C2: a fetch_if_needed call on an Absent cell invokes the issue closure (one
\* command is sent) and leaves the cell Refreshing with the same value; a call
\* on a Refreshing or Filled cell sends nothing and leaves the cell as it was.
C2_FetchStep ==
    (FacadeStep /\ last'.cell # NoCell) =>
        LET d == last'.cell IN
        IF CellOf(d).tag = "Uncached"
        THEN /\ last'.issued
             /\ SendsOne
             /\ fpc' # "blocked" => CellOfNext(d) = [tag |-> "Waiting", val |-> CellOf(d).val]
        ELSE /\ ~last'.issued
             /\ CellOfNext(d) = CellOf(d)
             /\ UNCHANGED chanVars
             /\ fpc' # "blocked"
C2_FetchIssuesOnce == [][C2_FetchStep]_vars

\* C2 witness: after the call that issued the scope-list request, a later call
\* found the scope cell Refreshing and sent nothing.
C2_Witness ==
    /\ last.op = "get_scopes" /\ ~last.issued
    /\ scopes_cache.tag = "Waiting"
    /\ nsub >= 2

\* The cells of the list operations: scope list, all-items table, per-scope items.
ListCells ==
    {Cell("scopes_cache"), Cell("all_items_cache")}
    \cup { ModuleCell(scope) : scope \in ScopeArgs }

\* C3 (as claimed): for every cache cell, once the cell is Filled(v) no step
\* changes what get() returns (an invalidate keeps v as prev), so no callback
\* replaces the value of a Filled cell.
C3_FilledKeepsValue ==
    [][\A d \in AllCells :
          CellOf(d).tag = "Filled" => get(CellOfNext(d)) = get(CellOf(d))]_vars

\* C3 (amended): for the scope-list, all-items and per-scope item cells, once the
\* cell is Filled(v) it stays Filled(v) in every later state.
C3_ListCellsKeepValue ==
    [][\A d \in ListCells :
          CellOf(d).tag = "Filled" => CellOfNext(d) = CellOf(d)]_vars

\* C3 witness: the scope list is Filled and a later list-items response has
\* been processed.
C3_Witness ==
    /\ scopes_cache.tag = "Filled"
    /\ last.op = "callback" /\ last.cb = "fetch_item"
    /\ last.response.variant = "list_items"

\* The callback invoked in a DeliverStep invalidates the query window.
Invalidates ==
    \/ last'.cb = "load_variables"
    \/ last'.cb \in {"pause", "raw_simulation_status"} /\ Matching

\* C4: an invalidation leaves the cell Absent, whatever state it was in, with the
\* value get() returned before as prev: get() is unchanged by it.
C4_InvalidateKeepsValue ==
    [][(DeliverStep /\ Invalidates) =>
          /\ query_result'.tag = "Uncached"
          /\ query_result'.val = get(query_result)
          /\ get(query_result') = get(query_result)]_vars

\* C4 witness: the query window was Filled(0) and a load_variables response has
\* invalidated it.
C4_Witness ==
    /\ last.op = "callback" /\ last.cb = "load_variables"
    /\ query_result = [tag |-> "Uncached", val |-> Some(0)]

\* The callback kind each command is submitted with.
CallbackOf(name) ==
    CASE name = "list_scopes" -> {"get_scopes"}
      [] name = "list_items" -> {"fetch_item", "fetch_items_in_module"}
      [] name = "reference_items" -> {"load_variables"}
      [] name = "query_interval" -> {"query_variable"}
      [] name = "run_simulation" -> {"unpause"}
      [] name = "pause_simulation" -> {"pause"}
      [] name = "get_simulation_status" -> {"raw_simulation_status"}

\* C5: the pairs whose callback has not run are exactly the latest submissions,
\* in submission order, each once and each command with its own callback: the
\* k-th response meets the callback of the k-th command, none is skipped and
\* none is invoked twice.
C5_PendingInOrder ==
    LET q == callback_queue \o command_channel IN
    \A i \in 1..Len(q) :
        /\ q[i].id = nsub - Len(q) + i
        /\ q[i].cb.kind \in CallbackOf(q[i].cmd.name)
C5_PositionalCorrelation ==
    /\ []C5_PendingInOrder
    /\ [][DeliverStep =>
             /\ last'.cb = Head(callback_queue).cb.kind
             /\ callback_queue' = Tail(callback_queue)
             /\ command_channel' = command_channel]_vars

\* C5 witness: one response has been delivered while two later commands wait.
C5_Witness ==
    /\ last.op = "callback"
    /\ nsub = 3
    /\ Len(callback_queue) = 2

\* C6: a response of another variant than the head callback expects leaves the
\* shared cache state as it was.
C6_WrongVariantChangesNothing ==
    [][(DeliverStep /\ ~Matching) =>
          UNCHANGED <<cellVars, tableVars, interval_query_cache>>]_vars

\* No element occurs twice in the sequence.
NoDuplicates(seq) == \A i, j \in 1..Len(seq) : seq[i] = seq[j] => i = j

\* The elements of vs that are new to the table `old`, each at its first
\* occurrence, in the order of vs.
FirstLoads(old, vs) ==
    LET new(i) == /\ \A k \in 1..Len(old) : old[k] # vs[i]
                  /\ \A j \in 1..(i - 1) : vs[j] # vs[i]
        F[i \in 0..Len(vs)] ==
            IF i = 0 THEN <<>>
            ELSE IF new(i) THEN Append(F[i - 1], vs[i]) ELSE F[i - 1]
    IN  F[Len(vs)]

\* C7: the loaded-signal table holds each loaded variable once, the index map is
\* its inverse, and a load_variables call appends the variables that are new,
\* in the order of their first occurrence, moving nothing.
C7_TableInvariant ==
    /\ NoDuplicates(loaded_signals)
    /\ DOMAIN signal_index_map = { loaded_signals[i] : i \in 1..Len(loaded_signals) }
    /\ \A i \in 1..Len(loaded_signals) : signal_index_map[loaded_signals[i]] = i - 1
C7_LoadedSignalTable ==
    /\ []C7_TableInvariant
    /\ [][IF FacadeStep /\ last'.op = "load_variables"
          THEN loaded_signals' = loaded_signals \o FirstLoads(loaded_signals, last'.variables)
          ELSE UNCHANGED tableVars]_vars

\* C7 witness: VarQ then VarR were loaded, and a call reloading VarR along with
\* VarQ has left the table as it was.
C7_Witness ==
    /\ loaded_signals = << VarQ, VarR >>
    /\ last.op = "load_variables" /\ last.variables = << VarR, VarQ >>

\* C8: query_variable sends an interval query, or returns a result, only when the
\* simulation status and the item table are known and the loaded-signal table is
\* not empty.
C8_QueryPreconditions ==
    [][(FacadeStep /\ last'.op = "query_variable"
        /\ (\/ last'.cell = Cell("query_result") /\ last'.issued
            \/ last'.ret \in {"Some(query)", "Some(default)"}))
       => /\ get(simulation_status) # None
          /\ get(all_items_cache) # None
          /\ loaded_signals # <<>>]_vars

\* C9: pause() sends one pause command and touches no cache state; the callback
\* of a pause response reporting T leaves the status Filled(paused, T) and the
\* query window Absent with its previous end timestamp as prev.
C9_Pause ==
    [][/\ (FacadeStep /\ last'.op = "pause") =>
             Sends(cmd_pause_simulation) /\ UNCHANGED dataVars
       /\ (DeliverStep /\ last'.cb = "pause" /\ Matching) =>
             /\ simulation_status' =
                   [tag |-> "Filled",
                    val |-> Some([status |-> "paused",
                                  latest_time |-> last'.response.time])]
             /\ query_result' = [tag |-> "Uncached", val |-> query_result.val]]_vars

\* C9 witness: the query window was Filled(0) when a pause response reporting
\* time 1 was processed.
C9_Witness ==
    /\ last.op = "callback" /\ last.cb = "pause"
    /\ last.response = [variant |-> "pause_simulation", time |-> 1]
    /\ simulation_status.val = Some([status |-> "paused", latest_time |-> 1])
    /\ query_result = [tag |-> "Uncached", val |-> Some(0)]

\* The latest time of the status the cache serves, zero if it serves none.
ServedTime ==
    IF get(simulation_status) = None THEN 0 ELSE get(simulation_status)[1].latest_time

\* C10: unpause computes its until-time as the latest time of the status the
\* cache serves (zero if none) plus the quantum, and sends one run command
\* carrying that until-time.
C10_UnpauseUntil ==
    [][/\ (FacadeStep /\ fpc = "idle" /\ last'.op = "unpause") =>
             (IF fpc' = "blocked" THEN local'.nextlocal ELSE local').duration
                 = ServedTime + Quantum
       /\ (FacadeStep /\ fpc = "unpause_run") =>
             Sends(cmd_run_simulation(local.duration))]_vars

\* C10 witness: a pause response reported time 1 and the next unpause has
\* submitted a run until 1 + quantum.
C10_Witness ==
    /\ simulation_status = filled([status |-> "paused", latest_time |-> 1])
    /\ \E i \in 1..Len(Pending) :
          Pending[i].cmd = [name |-> "run_simulation", until_time |-> 1 + 100000000]

\* What simulation_status() and raw_simulation_status() read without a new
\* response: the value the status cell serves.
StatusRead == get(simulation_status)

\* C11: right after unpause() has returned, before any further response is
\* processed, the status read through the facade is (running, 0).
C11_RunningAfterUnpause ==
    [][(fpc = "unpause_run" /\ FacadeStep /\ fpc' = "idle") =>
          StatusRead' = Some([status |-> "running", latest_time |-> 0])]_vars

\* C12: every callback that changes the simulation status leaves the query
\* window Absent and sends at least one redraw notification in the same step.
C12_StatusChangeInvalidates ==
    [][(DeliverStep /\ simulation_status' # simulation_status) =>
          /\ query_result'.tag = "Uncached"
          /\ msg_sent' >= 1]_vars

\* C13: a query of a populated store returns the value of the sample with the
\* largest timestamp <= t for a variable of the load set, and the default when
\* t precedes the first sample or the variable is not in the load set.
C13_PointQuery ==
    last.op = "query" =>
        LET st == interval_query_cache
            v == last.variable
            t == last.time
            loaded == \E k \in 1..Len(st.loaded_signals) : st.loaded_signals[k] = v
            upto == { i \in 1..Len(st.samples) : st.samples[i].time <= t }
        IN  IF loaded /\ upto # {}
            THEN \E i \in upto :
                    /\ \A j \in upto : st.samples[j].time <= st.samples[i].time
                    /\ last.ret = Some(st.samples[i].values[store_index(st, v) + 1])
            ELSE last.ret = None

\* C13 witness: with samples at times 0 and 1 carrying different values, a query
\* at time 0 returned the value of the first sample (not of the last one).
C13_Witness ==
    /\ last.op = "query" /\ last.time = 0 /\ last.variable = VarQ
    /\ interval_query_cache.loaded_signals = << VarR, VarQ >>
    /\ Len(interval_query_cache.samples) = 2
    /\ interval_query_cache.samples[1] = [time |-> 0, values |-> <<1, 2>>]
    /\ interval_query_cache.samples[2].values = <<2, 1>>
    /\ last.ret = Some(2)

\* C14: child_scopes(P) returns exactly the cached scopes C with
\* length(C) = length(P) + 1 whose first length(P) segments equal P, and the
\* empty list when no scope list is available.
C14_ChildScopes ==
    last.op = "child_scopes" =>
        LET P == last.parent IN
        /\ last.ret =
              { C \in scopes_served(scopes_cache) :
                   /\ Len(C) = Len(P) + 1
                   /\ \A i \in 1..Len(P) : C[i] = P[i] }
        /\ get(scopes_cache) = None => last.ret = {}

\* C14 witness: the simulator reported "t", "t c" and the grandchild "t c d", and
\* child_scopes(["t"]) returned exactly [["t", "c"]].
C14_Witness ==
    /\ last.op = "child_scopes" /\ last.parent = << <<"t">> >>
    /\ scopes_cache =
          filled({ << <<"t">> >>, << <<"t">>, <<"c">> >>, << <<"t">>, <<"c">>, <<"d">> >> })
    /\ last.ret = { << <<"t">>, <<"c">> >> }

\* Token sequences of well-formed wire keys: non-empty tokens without separator.
Tokens == { <<"t">>, <<"c">>, <<"r">>, <<"q">>, <<"r", "0">> }
TokenSeqs == UNION { [1..n -> Tokens] : n \in 1..3 }

\* C15: every wire key made of tokens joined by single spaces decodes to the
\* variable whose path is all tokens but the last and whose name is the last,
\* with the item's width, and distinct keys decode to distinct variables.
C15_ItemDecoding ==
    last.op = "item_list_to_hash_map" =>
        LET wf == { toks \in TokenSeqs : Join(toks) \in DOMAIN last.items }
            ref(toks) == [path |-> SubSeq(toks, 1, Len(toks) - 1), name |-> toks[Len(toks)]]
        IN  /\ \A toks \in wf :
                  /\ ref(toks) \in DOMAIN last.ret
                  /\ last.ret[ref(toks)] = last.items[Join(toks)]
            /\ Cardinality({ v \in DOMAIN last.ret : \E toks \in wf : v = ref(toks) })
                  = Cardinality({ Join(toks) : toks \in wf })

\* C15 witness: "t c r0" (width 16) and "t q" (width 32) were decoded to
\* t.c.r0 and t.q with those widths.
C15_Witness ==
    /\ last.op = "item_list_to_hash_map"
    /\ last.items = (<<"t", SP, "c", SP, "r", "0">> :> [width |-> 16])
                     @@ (<<"t", SP, "q">> :> [width |-> 32])
    /\ last.ret = ([path |-> << <<"t">>, <<"c">> >>, name |-> <<"r", "0">>] :> [width |-> 16])
                   @@ ([path |-> << <<"t">> >>, name |-> <<"q">>] :> [width |-> 32])

\* C16: an item whose key is malformed (the empty key) is absent from the decoded
\* table, and every well-formed item of the same response is present.
C16_MalformedKeyDropped ==
    last.op = "item_list_to_hash_map" =>
        LET wellformed == { k \in DOMAIN last.items : \E toks \in TokenSeqs : Join(toks) = k }
        IN  /\ \A k \in DOMAIN last.items \ wellformed :
                  item_key_to_ref(k) \notin DOMAIN last.ret
            /\ Cardinality(DOMAIN last.ret) = Cardinality(wellformed)

\* C17: the greeting frame is written completely before any command frame: until
\* it has been written and flushed no worker runs and no command has been
\* accepted or written; and when a write of the greeting fails, no worker is
\* started and no container is returned.
C17_GreetingFirst ==
    /\ greeting # "flushed" =>
          /\ wpc = "unstarted"
          /\ fpc \in {"new_greeting", "new_sentinel", "new_flush", "new_failed"}
          /\ nsub = 0 /\ command_channel = <<>> /\ callback_queue = <<>>
    /\ fpc = "new_failed" =>
          /\ wpc = "unstarted"
          /\ greeting # "flushed"
          /\ nsub = 0 /\ command_channel = <<>> /\ callback_queue = <<>>

\* C17 witness: after the greeting, a command frame has been written to the wire.
C17_Witness ==
    /\ greeting = "flushed"
    /\ wpc = "run"
    /\ callback_queue # <<>>

\* C19: with the channel closed, a facade step that has to submit a command
\* panics, sends nothing and leaves the cell it was fetching as it was (not
\* Refreshing); a facade step that needs no command goes on as usual and leaves
\* the cells and the channel alone. A caller blocked in the send panics too.
C19_ClosedChannelIsFatal ==
    [][/\ (FacadeStep /\ Closed /\ fpc # "panicked") =>
             IF last'.issued
             THEN /\ fpc' = "panicked"
                  /\ UNCHANGED chanVars
                  /\ \A d \in AllCells : CellOfNext(d) = CellOf(d)
                  /\ last'.cell # NoCell => CellOfNext(last'.cell).tag = "Uncached"
             ELSE /\ fpc' # "panicked"
                  /\ UNCHANGED <<cellVars, chanVars>>
       /\ (fpc = "blocked" /\ Closed /\ fpc' # fpc) =>
             /\ fpc' = "panicked"
             /\ UNCHANGED <<cellVars, chanVars>>]_vars

\* C19 witness: after the worker terminated, a status read was served from the
\* Filled cell, and get_scopes then panicked with the scope cell still Absent.
C19_Witness ==
    /\ Closed
    /\ fpc = "panicked"
    /\ last.op = "get_scopes" /\ last.issued
    /\ scopes_cache = empty
    /\ simulation_status.tag = "Filled"

\* Number of accepted commands whose callback has been invoked.
Served == nsub - Len(callback_queue) - Len(command_channel)

\* C18: with a fairly scheduled live worker and an answering simulator, every
\* command the channel has accepted eventually has its callback invoked.
C18_EveryCallbackRuns ==
    \A k \in 1..MaxCtlCmds : (nsub >= k) ~> (Served >= k)

\* C20: the caller never holds the data lock while blocked on the full channel
\* with the worker blocked acquiring that lock to run a callback.
C20_NoDeadlockUnderBackpressure ==
    ~(fpc = "blocked" /\ local.lock /\ ~Room /\ wpc = "await_lock")

\* CxxrtlData as new constructs it: every cell Absent without a value, no
\* per-scope cell, an empty table and an empty store.
CachesEmpty ==
    /\ \A d \in AllCells : CellOf(d) = empty
    /\ module_item_cache = <<>>
    /\ loaded_signals = <<>>
    /\ signal_index_map = <<>>
    /\ interval_query_cache = EmptyStore

C22_QueryWindow ==
    [][/\ (FacadeStep /\ fpc = "idle" /\ last'.op = "query_variable"
           /\ last'.ret = "pending") =>
             (IF fpc' = "blocked" THEN local'.nextlocal ELSE local').max_timestamp
                 = ServedTime
       /\ (FacadeStep /\ fpc = "qv_query") =>
             /\ query_result.tag = "Uncached" =>
                   Sends(cmd_query_interval(0, local.max_timestamp))
             /\ last'.ret = "Some(query)" => query_result.tag = "Filled"
       /\ (DeliverStep /\ last'.cb = "query_variable" /\ Matching) =>
             /\ query_result' = filled(Head(callback_queue).cb.max_timestamp)
             /\ Head(callback_queue).cmd.interval
                   = <<0, Head(callback_queue).cb.max_timestamp>>
             /\ interval_query_cache'.samples = last'.response.samples]_vars

\* The step puts a list-items command without a scope into the channel.
SendsListAllItems ==
    /\ Len(command_channel') = Len(command_channel) + 1
    /\ command_channel'[Len(command_channel')].cmd = cmd_list_items(None)

\* C23: over any sequence of variable_meta and query_variable calls at most one
\* list-items command without a scope is submitted: one is sent only while the
\* all-items cell is Absent, which the send ends for good. variable_meta returns
\* at once, with the width recorded in the table when the table is served and
\* holds the variable, and with unknown width otherwise.
C23_OneTableRequest ==
    /\ [](Cardinality({ i \in 1..Len(Pending) : Pending[i].cmd = cmd_list_items(None) }) <= 1)
    /\ [][/\ SendsListAllItems =>
               all_items_cache = empty /\ all_items_cache'.tag = "Waiting"
          /\ all_items_cache.tag # "Uncached" => all_items_cache'.tag # "Uncached"
          /\ (FacadeStep /\ last'.op = "variable_meta") =>
               /\ fpc' = "idle"
               /\ last'.ret.num_bits =
                     (LET t == get(all_items_cache)
                          v == last'.ret.var
                      IN  IF t = None THEN None
                          ELSE IF v \in DOMAIN t[1] THEN Some(t[1][v].width)
                          ELSE None)]_vars

\* C23 witness: query_variable requested the table, and variable_meta calls were
\* then served from it without a further command: unknown width while it was on
\* its way, width 32 for t.q once it had arrived.
C23_Witness ==
    /\ last.op = "variable_meta" /\ ~last.issued
    /\ last.ret = [var |-> VarQ, num_bits |-> Some(32)]
    /\ all_items_cache.tag = "Filled"
    /\ simulation_status.tag = "Filled"

\* The simulation state simulation_status() reports, "unknown" while it
\* returns None.
StatusType == IF StatusRead = None THEN "unknown" ELSE StatusRead[1].status

\* C24: the callbacks of pause and unpause never move the served status out of
\* finished, and the callback of pause changes the served state only from
\* running (or from unknown).
C24_StatusTransitions ==
    [][(DeliverStep /\ last'.cb \in {"pause", "unpause"}) =>
          /\ StatusType = "finished" => StatusType' = "finished"
          /\ (last'.cb = "pause" /\ StatusType = "paused") => StatusType' = "paused"]_vars

\* Segment sequences of hierarchical scope names.
ScopeSegments == { <<"t">>, <<"c">>, <<"d">>, <<"u">> }
ScopePaths == UNION { [1..n -> ScopeSegments] : n \in 0..3 }

\* C25: once a list-scopes response has been decoded, every scope whose wire
\* name joins segments by single spaces is served as that segment sequence; and
\* when the response lists the root (the empty wire name), the root reference
\* of root_modules exists as a module and no child of it is the root itself.
C25_RootScope ==
    (last.op = "callback" /\ last.cb = "get_scopes") =>
        LET names == last.response.scopes
            served == scopes_served(scopes_cache)
        IN  /\ \A path \in ScopePaths : Join(path) \in names => path \in served
            /\ <<>> \in names =>
                  \A root \in root_modules :
                     /\ module_exists(served, root)
                     /\ \A child \in child_scopes(served, root) : Join(child) # <<>>

\* C26: whenever the query window is Filled(t), the status cell serves a status
\* and t is its latest time.
C26_WindowMatchesStatus ==
    query_result.tag = "Filled" =>
        /\ StatusRead # None
        /\ query_result.val = Some(StatusRead[1].latest_time)

\* A reference-items command is submitted and its callback has not run.
ReferenceOutstanding ==
    \E i \in 1..Len(Pending) : Pending[i].cmd.name = "reference_items"

\* The items of a reference-items command for a table: one single-name
\* designator per variable, in position order.
ReferenceItems(signals) ==
    [i \in 1..Len(signals) |-> << var_cxxrtl_repr(signals[i]) >>]

\* C27: while no reference-items command is outstanding, a Filled query window
\* means the store was last populated with exactly the current loaded-signal
\* table; each load_variables call sends one reference-items command carrying
\* the whole table in position order, and its response always leaves the query
\* window Absent.
C27_StoreMatchesTable ==
    /\ []((~ReferenceOutstanding /\ query_result.tag = "Filled") =>
             interval_query_cache.loaded_signals = loaded_signals)
    /\ [][/\ (FacadeStep /\ last'.op = "load_variables") =>
                Sends(cmd_reference_items(ReferenceItems(loaded_signals')))
          /\ (DeliverStep /\ last'.cb = "load_variables") =>
                query_result'.tag = "Uncached"]_vars

\* C27 witness: t.q and t.r were loaded, the reference-items response has been
\* processed, and the interval query sent afterwards has filled the window with
\* the store populated for that table.
C27_Witness ==
    /\ ~ReferenceOutstanding
    /\ query_result.tag = "Filled"
    /\ loaded_signals = << VarQ, VarR >>
    /\ interval_query_cache.loaded_signals = << VarQ, VarR >>

\* The cells other than the query window.
StableCells == AllCells \ {Cell("query_result")}

\* The cell a command fetches for.
CellOfCommand(cmd) ==
    CASE cmd.name = "get_simulation_status" -> Cell("simulation_status")
      [] cmd.name = "list_scopes" -> Cell("scopes_cache")
      [] cmd.name = "list_items" ->
            IF cmd.scope = None THEN Cell("all_items_cache")
            ELSE ModuleCell(CHOOSE scope \in ScopeArgs :
                                scope_cxxrtl_repr(scope) = cmd.scope[1])
      [] cmd.name = "query_interval" -> Cell("query_result")
      [] OTHER -> NoCell

\* C28: the scope-list, all-items, per-scope item and status cells never return
\* to Absent once they have left it; a get-simulation-status, list-scopes or
\* list-items command is sent only while its cell is Absent, which the send
\* ends, so at most one command per such cell is ever submitted (and at most
\* one is pending in any state).
C28_OnlyQueryWindowInvalidated ==
    /\ [](\A d \in StableCells :
             Cardinality({ i \in 1..Len(Pending) : CellOfCommand(Pending[i].cmd) = d }) <= 1)
    /\ [][/\ \A d \in StableCells :
                CellOf(d).tag # "Uncached" => CellOfNext(d).tag # "Uncached"
          /\ Len(command_channel') = Len(command_channel) + 1 =>
                LET d == CellOfCommand(command_channel'[Len(command_channel')].cmd) IN
                d \in StableCells =>
                    CellOf(d).tag = "Uncached" /\ CellOfNext(d).tag = "Waiting"]_vars

\* C28 witness: the scope list was fetched, a pause response then invalidated the
\* query window, and a further get_scopes call was served from the Filled cell
\* without a command.
C28_Witness ==
    /\ last.op = "get_scopes" /\ ~last.issued
    /\ scopes_cache.tag = "Filled"
    /\ simulation_status.tag = "Filled" /\ StatusType = "paused"
    /\ Served = 2

\* C29: for every cell, once get() returns a value it returns one in every later
\* state; and a step that is not a callback (a fetch_if_needed call, or the end
\* of its blocked send) never changes the value served, only the tag from
\* Absent to Refreshing.
C29_ValueNeverLost ==
    [][\A d \in AllCells :
          /\ get(CellOf(d)) # None => get(CellOfNext(d)) # None
          /\ ~DeliverStep =>
                /\ get(CellOfNext(d)) = get(CellOf(d))
                /\ CellOfNext(d).tag # CellOf(d).tag =>
                      CellOf(d).tag = "Uncached" /\ CellOfNext(d).tag = "Waiting"]_vars

\* C29 witness: the query window was Filled(0), a pause response made it Absent,
\* and the next query_variable call has started a new request with the window
\* Refreshing and still serving 0.
C29_Witness ==
    /\ last.op = "query_variable" /\ last.cell = Cell("query_result") /\ last.issued
    /\ fpc = "idle"
    /\ query_result = [tag |-> "Waiting", val |-> Some(0)]

====
